---- MODULE Spec2Model ----
(***************************************************************************)
(* Trading-window aggregation of taiwan_stock_analysis_upgrade.py (and the *)
(* identical code of taiwan_stock_analysis.py): get_valid_date,            *)
(* fetch_stock_data and get_top_stocks, the per-stock lookups and the      *)
(* driver of __main__, the window of stock_gui.py, and chat_with_ai and    *)
(* get_monthly_revenue of stock_reports.py.                                *)
(*                                                                         *)
(* Dates are day ordinals (date.toordinal()); a formatted date is the pair *)
(* <<format, ordinal>>, so that the two formats the code uses stay apart.  *)
(* Python dicts whose insertion order is of interest are sequences of      *)
(* <<key, value>> pairs; the others are functions.  The wall clock is read *)
(* once: a run is assumed not to cross midnight.                           *)
(***************************************************************************)
EXTENDS Integers, Sequences, FiniteSets, TLC

\* ------------------------------------------------------------ constants
LookbackDays == 30
max_retries == 10

\* ------------------------------------------------------------ bounds
MaxDays == 2
MaxCalls == 2

\* The days a run can start on: one week, Monday (35) to Sunday (41).
Todays == 35..41

Stocks == {"A", "B"}

\* Requested counts: from none to more than there are stocks.
MaxStocks == Cardinality(Stocks) + 1

\* The per-day tables the exchange can answer with: cache values, i.e. dicts
\* stock id -> (buy, sell) in row order.
DayTables ==
    { << <<"A", <<1, 0>> >> >>,
      << <<"B", <<1, 1>> >>, <<"A", <<0, 1>> >> >> }

FMT_COMPACT == "%Y%m%d"
FMT_SLASH == "%Y/%m/%d"

VARIABLES
    now,             \* datetime.now().date()
    num_days,        \* parameter of get_top_stocks
    stock_buys, stock_sells, failed_dates,
    end_date, start_date, current_date,
    cache, days_with_data,
    date_str,        \* the date last passed to fetch_stock_data
    ranking,         \* sorted(...) before the [:num_stocks] slice
    pc,              \* "while" | "done"
    iterations,      \* history: loop bodies executed
    hit_dates,       \* history: date strings for which fetch_stock_data returned data
    miss_dates,      \* history: date strings for which fetch_stock_data returned None
    call_log,        \* history of direct fetch_stock_data calls (FetchSpec)
    rank,            \* __main__: position in top_stocks of the stock in work
    results, problem_stocks,
    exit_code,       \* <<>> while the process runs, <<code>> once it has ended
    cause,           \* history: what ended the process
    info,            \* frame of the get_stock_info call of the stock in work
    price,           \* frame of its get_stock_price_change call
    gui,             \* stock_gui.py: widget states and running worker threads
    chat,            \* stock_reports.py: frame of chat_with_ai
    revenue          \* stock_reports.py: frame of get_monthly_revenue

aggregator == <<now, num_days, stock_buys, stock_sells, failed_dates,
                end_date, start_date, current_date, cache, days_with_data,
                date_str, iterations, hit_dates, miss_dates, call_log>>

driver == <<rank, results, problem_stocks, exit_code, cause, info, price>>

vars == <<now, num_days, stock_buys, stock_sells, failed_dates,
          end_date, start_date, current_date, cache, days_with_data, date_str,
          ranking, pc, iterations, hit_dates, miss_dates, call_log,
          rank, results, problem_stocks, exit_code, cause, info, price,
          gui, chat, revenue>>

apps == <<gui, chat, revenue>>

\* ------------------------------------------------------------ Python values
None == [isNone |-> TRUE, val |-> <<>>]
Some(v) == [isNone |-> FALSE, val |-> v]

EmptyDict == [k \in {} |-> <<>>]

DictPutFresh(d, k, v) == [x \in {k} |-> v]

\* dict as a function: d[k] = v
DictPut(d, k, v) == [x \in (DOMAIN d) \cup {k} |-> IF x = k THEN v ELSE d[x]]

\* dict as a sequence of <<key, value>> pairs in insertion order
Keys(d) == {d[i][1] : i \in 1..Len(d)}
KeyList(d) == [i \in 1..Len(d) |-> d[i][1]]
ItemGet(d, k, dflt) ==
    IF k \in Keys(d) THEN d[CHOOSE i \in 1..Len(d) : d[i][1] = k][2] ELSE dflt
ItemSet(d, k, v) ==
    IF k \in Keys(d)
    THEN [i \in 1..Len(d) |-> IF d[i][1] = k THEN <<k, v>> ELSE d[i]]
    ELSE Append(d, <<k, v>>)

\* ------------------------------------------------------------ get_valid_date
Weekday(d) == d % 7          \* date.weekday(): 0 = Monday .. 5 = Saturday, 6 = Sunday

Strftime(d, fmt) == <<fmt, d>>
Ordinal(s) == s[2]

SkipSundayOnly(d) == IF Weekday(d) = 6 THEN d - 1 ELSE d

RECURSIVE SkipWeekend(_)
SkipWeekend(d) == IF Weekday(d) >= 5 THEN SkipWeekend(d - 1) ELSE d

get_valid_date(days_back) == Strftime(SkipWeekend(now - days_back), FMT_COMPACT)

\* ------------------------------------------------------------ fetch_stock_data
\* What one session.get + response.json() can produce: stat "OK" with a table,
\* the apology status of a day without data, or anything else (an exception,
\* malformed JSON, another status, a row that does not parse).
Responses ==
    {[stat |-> "OK", data |-> t] : t \in DayTables}
        \cup {[stat |-> "sorry", data |-> <<>>], [stat |-> "error", data |-> <<>>]}

Outcome(ret, c, calls, sleeps, events) ==
    [ret |-> ret, cache |-> c, calls |-> calls, sleeps |-> sleeps, events |-> events]

IsCachedNever(date, c) == FALSE

IsCached(date, c) == date \in DOMAIN c

SleepsAlways(attempt, sleeps) == sleeps + 1

SleepsAfter(attempt, sleeps) ==
    IF attempt < max_retries - 1 THEN sleeps + 1 ELSE sleeps

IsApologyNever(stat) == FALSE

\* '很抱歉' in data['stat']
IsApology(stat) == stat = "sorry"

\* the trace of one call after attempt `attempt` got the response `stat` and
\* went on to the end of the loop body
Transient(events, stat, attempt, sleeps) ==
    IF SleepsAfter(attempt, sleeps) > sleeps
    THEN events \o <<stat, "sleep">>
    ELSE Append(events, stat)

\* The for-loop from iteration `attempt` on: every way it can end, as
\* [ret, cache, calls, sleeps, events] (return value, cache afterwards, HTTP
\* requests issued and time.sleep calls made by this call, and the trace of
\* the call: the status of each response and "sleep" for each time.sleep).
RECURSIVE Attempts(_, _, _, _, _)
Attempts(date, c, attempt, sleeps, events) ==
    IF attempt >= max_retries
    THEN {Outcome(None, c, attempt, sleeps, events)}
    ELSE UNION {
        CASE r.stat = "OK" ->
                {Outcome(Some(r.data), DictPut(c, date, r.data), attempt + 1, sleeps,
                         Append(events, r.stat))}
          [] IsApology(r.stat) ->
                {Outcome(None, c, attempt + 1, sleeps, Append(events, r.stat))}
          [] OTHER ->
                Attempts(date, c, attempt + 1, SleepsAfter(attempt, sleeps),
                         Transient(events, r.stat, attempt, sleeps))
        : r \in Responses }

fetch_stock_data(date, c) ==
    IF IsCached(date, c)
    THEN {Outcome(Some(c[date]), c, 0, 0, <<>>)}
    ELSE Attempts(date, c, 0, 0, <<>>)

\* ------------------------------------------------------------ get_top_stocks
AddVolumeOverwrite(total, amount) == amount

AddVolume(total, amount) == total + amount

\* for stock_id, (buy_amount, sell_amount) in data.items(): rows i..Len(table)
RECURSIVE MergeRows(_, _, _)
MergeRows(table, i, st) ==
    IF i > Len(table) THEN st
    ELSE LET stock_id == table[i][1]
             buy_amount == table[i][2][1]
             sell_amount == table[i][2][2]
         IN MergeRows(table, i + 1,
                [buys |-> ItemSet(st.buys, stock_id,
                                  AddVolume(ItemGet(st.buys, stock_id, 0), buy_amount)),
                 sells |-> ItemSet(st.sells, stock_id,
                                   AddVolume(ItemGet(st.sells, stock_id, 0), sell_amount)),
                 failed |-> IF stock_id \in DOMAIN st.failed THEN st.failed
                            ELSE DictPut(st.failed, stock_id, <<>>)])

FailureTargetsAll(buys, sells) == Stocks

FailureTargets(buys, sells) == Keys(buys) \cup Keys(sells)

RecordFailureTwice(failed, ids, entry) ==
    [s \in (DOMAIN failed) \cup ids |->
        IF s \in ids
        THEN (IF s \in DOMAIN failed THEN failed[s] ELSE <<>>) \o <<entry, entry>>
        ELSE failed[s]]

\* the else branch: the date is appended for every stock seen so far
RecordFailure(failed, ids, entry) ==
    [s \in (DOMAIN failed) \cup ids |->
        IF s \in ids
        THEN Append(IF s \in DOMAIN failed THEN failed[s] ELSE <<>>, entry)
        ELSE failed[s]]

State == [buys |-> stock_buys, sells |-> stock_sells, failed |-> failed_dates,
          days |-> days_with_data, start |-> start_date]

BodyHit(st, table, cur) ==
    LET m == MergeRows(table, 1, [buys |-> st.buys, sells |-> st.sells, failed |-> st.failed])
    IN [buys |-> m.buys, sells |-> m.sells, failed |-> m.failed,
        days |-> st.days + 1, start |-> cur]

BodyMissCounted(st, cur) ==
    [st EXCEPT !.failed = RecordFailure(st.failed, FailureTargets(st.buys, st.sells),
                                        Strftime(cur, FMT_SLASH)),
               !.days = st.days + 1]

BodyMiss(st, cur) ==
    [st EXCEPT !.failed = RecordFailure(st.failed, FailureTargets(st.buys, st.sells),
                                        Strftime(cur, FMT_SLASH))]

LoopCondOr == days_with_data < num_days \/ (end_date - current_date) < LookbackDays

LoopCondInclusive == days_with_data < num_days /\ (end_date - current_date) <= LookbackDays

LoopCond == days_with_data < num_days /\ (end_date - current_date) < LookbackDays

NextDay(d) == d + 1

PrevDay(d) == d - 1

\* One pass of the while body, fetch_stock_data included.
LoopIteration ==
    /\ pc = "while"
    /\ LoopCond
    /\ LET ds == get_valid_date(end_date - current_date) IN
       \E o \in {[ret |-> x.ret, cache |-> x.cache] : x \in fetch_stock_data(ds, cache)} :
          LET st == IF o.ret.isNone THEN BodyMiss(State, current_date)
                    ELSE BodyHit(State, o.ret.val, current_date)
          IN /\ date_str' = ds
             /\ cache' = o.cache
             /\ stock_buys' = st.buys
             /\ stock_sells' = st.sells
             /\ failed_dates' = st.failed
             /\ days_with_data' = st.days
             /\ start_date' = st.start
             /\ hit_dates' = IF o.ret.isNone THEN hit_dates ELSE hit_dates \cup {ds}
             /\ miss_dates' = IF o.ret.isNone THEN miss_dates \cup {ds} ELSE miss_dates
    /\ current_date' = PrevDay(current_date)
    /\ iterations' = iterations + 1
    /\ UNCHANGED <<now, num_days, end_date, ranking, pc, call_log>>
    /\ UNCHANGED driver
    /\ UNCHANGED apps

\* set(stock_buys.keys()) | set(stock_sells.keys()) iterated: a set of str has
\* no defined iteration order (it follows the per-process string hashes), so
\* every enumeration of the set is possible.
SetOrders(S) ==
    {q \in [1..Cardinality(S) -> S] : \A i, j \in DOMAIN q : i # j => q[i] # q[j]}

Entry(stock_id) ==
    <<stock_id,
      ItemGet(stock_buys, stock_id, 0),
      ItemGet(stock_sells, stock_id, 0),
      IF stock_id \in DOMAIN failed_dates THEN failed_dates[stock_id] ELSE <<>> >>

\* position at which a stable sort puts x behind the sorted prefix s
RankAscending(s, x) == Cardinality({i \in 1..Len(s) : s[i][2] <= x[2]})

RankDescending(s, x) == Cardinality({i \in 1..Len(s) : s[i][2] >= x[2]})

InsertStable(s, x) ==
    LET k == RankDescending(s, x)
    IN SubSeq(s, 1, k) \o <<x>> \o SubSeq(s, k + 1, Len(s))

\* sorted(list, key=lambda x: x[1], reverse=True): stable, equal keys keep
\* the order they have in list
RECURSIVE SortedFrom(_, _, _)
SortedFrom(list, i, acc) ==
    IF i > Len(list) THEN acc ELSE SortedFrom(list, i + 1, InsertStable(acc, list[i]))

sorted_by_buy(list) == SortedFrom(list, 1, <<>>)

Min(a, b) == IF a < b THEN a ELSE b

SliceAll(list, n) == list

\* list[:n] for n >= 0
Slice(list, n) == SubSeq(list, 1, Min(n, Len(list)))

\* The list get_top_stocks returns when called with num_stocks: the parameter
\* is read by the final slice alone, so the run is the same for every value of
\* it and the returned list is this function of it.
sorted_stocks(num_stocks) == Slice(ranking, num_stocks)

\* The loop has ended: rank and return.
Return ==
    /\ pc = "while"
    /\ ~LoopCond
    /\ IF stock_buys = <<>>
       THEN ranking' = <<>>
       ELSE \E order \in SetOrders(Keys(stock_buys) \cup Keys(stock_sells)) :
               ranking' = sorted_by_buy([i \in DOMAIN order |-> Entry(order[i])])
    /\ pc' = "done"
    /\ UNCHANGED <<now, num_days, stock_buys, stock_sells, failed_dates,
                   end_date, start_date, current_date, cache, days_with_data,
                   date_str, iterations, hit_dates, miss_dates, call_log>>
    /\ UNCHANGED driver
    /\ UNCHANGED apps

\* ------------------------------------------------------------ call frames
NoResponse == [stat |-> "none", parts |-> 0, rows |-> 0]
NoPrices == [stat |-> "none", data |-> <<>>]

\* get_stock_info and get_stock_price_change before their first request
InfoStart == [days_back |-> 0, attempt |-> 0, requests |-> 0, resp |-> NoResponse, ret |-> <<>>]
PriceStart == [attempt |-> 0, requests |-> 0, resp |-> NoPrices, ret |-> <<>>]

\* __main__ has not started
DriverIdle ==
    /\ rank = 1
    /\ results = <<>>
    /\ problem_stocks = <<>>
    /\ exit_code = <<>>
    /\ cause = ""
    /\ info = InfoStart
    /\ price = PriceStart

\* ------------------------------------------------------------ stock_gui.py, stock_reports.py
INSTRUCTIONS == "instructions"

\* the window as built by the module: the button enabled, loading_label
\* hidden, the status bar at its first text, result_text showing the
\* instructions, no thread started
GuiStart ==
    [entry |-> "", button |-> "normal", loading |-> FALSE, status |-> "ready",
     result |-> INSTRUCTIONS, threads |-> <<>>]

Message(role, content) == [role |-> role, content |-> content]

\* chat_with_ai before its while loop: the three seed messages
ChatStart ==
    [conversation_history |-> <<Message("system", "seed"), Message("user", "seed"),
                                Message("assistant", "seed")>>,
     sent |-> <<>>, asked |-> 0, ret |-> <<>>]

\* get_monthly_revenue before its for loop
RevenueStart(today, reports) ==
    [now |-> today, reports |-> reports, i |-> 0, queried |-> <<>>,
     revenues |-> <<>>, ret |-> <<>>]

AppsIdle ==
    /\ gui = GuiStart
    /\ chat = ChatStart
    /\ revenue = RevenueStart(<<2024, 1, 1>>, "all")

\* get_top_stocks up to the while statement
Init ==
    /\ now \in Todays
    /\ num_days \in 0..MaxDays
    /\ stock_buys = <<>>
    /\ stock_sells = <<>>
    /\ failed_dates = EmptyDict
    /\ end_date = now - 1
    /\ start_date = end_date
    /\ cache = EmptyDict
    /\ days_with_data = 0
    /\ current_date = end_date
    /\ date_str = <<>>
    /\ ranking = <<>>
    /\ pc = "while"
    /\ iterations = 0
    /\ hit_dates = {}
    /\ miss_dates = {}
    /\ call_log = <<>>
    /\ DriverIdle
    /\ AppsIdle

Next == LoopIteration \/ Return

Spec == Init /\ [][Next]_vars

\* ------------------------------------------------------------ direct calls
\* fetch_stock_data called repeatedly on one run cache, as get_top_stocks
\* does, with the requests and sleeps of every call on record.
FetchDates == {get_valid_date(k) : k \in 0..1}

CallFetch ==
    /\ pc = "calls"
    /\ Len(call_log) < MaxCalls
    /\ \E d \in FetchDates : \E o \in fetch_stock_data(d, cache) :
          /\ cache' = o.cache
          /\ call_log' = Append(call_log,
                [date |-> d, ret |-> o.ret, calls |-> o.calls, sleeps |-> o.sleeps,
                 events |-> o.events])
    /\ UNCHANGED <<now, num_days, stock_buys, stock_sells, failed_dates,
                   end_date, start_date, current_date, days_with_data, date_str,
                   ranking, pc, iterations, hit_dates, miss_dates>>
    /\ UNCHANGED driver
    /\ UNCHANGED apps

FetchInit ==
    /\ now \in {t \in Todays : Weekday(t) = 2}
    /\ num_days = 0
    /\ stock_buys = <<>>
    /\ stock_sells = <<>>
    /\ failed_dates = EmptyDict
    /\ end_date = now - 1
    /\ start_date = end_date
    /\ cache = EmptyDict
    /\ days_with_data = 0
    /\ current_date = end_date
    /\ date_str = <<>>
    /\ ranking = <<>>
    /\ pc = "calls"
    /\ iterations = 0
    /\ hit_dates = {}
    /\ miss_dates = {}
    /\ call_log = <<>>
    /\ DriverIdle
    /\ AppsIdle

FetchNext == CallFetch

FetchSpec == FetchInit /\ [][FetchNext]_vars

\* ------------------------------------------------------------ get_stock_info
info_days == 30
info_max_retries == 5

\* the name "未知" (unknown) of the fallback triple
SENTINEL_NAME == "unknown"

\* What one session.get + response.json() of STOCK_DAY can produce: a status,
\* the number of whitespace-separated parts of data['title'] and the number
\* of rows of data['data']; "exception" stands for every error raised in the
\* try block before the status is read.
InfoResponses ==
    { [stat |-> "OK", parts |-> 3, rows |-> 1],
      [stat |-> "OK", parts |-> 1, rows |-> 1],
      [stat |-> "OK", parts |-> 3, rows |-> 0],
      [stat |-> "other", parts |-> 0, rows |-> 0],
      [stat |-> "exception", parts |-> 0, rows |-> 0] }

UsableNever(r) == FALSE

\* the response takes the path to `return code, name, last_close`:
\* data['data'][-1] of an empty list raises IndexError, caught by the except
Usable(r) == r.stat = "OK" /\ r.parts >= 2 /\ r.rows >= 1

CLOSE == 5

\* (code, name, last_close) parsed from a usable response for stock_id
Parsed(stock_id) == <<stock_id, "name", CLOSE>>

Fallback(stock_id) == <<stock_id, SENTINEL_NAME, 0>>

\* the frame after a response that did not return: next attempt, next day
\* offset after the last attempt, the fallback triple after the last offset
InfoAdvance(f, stock_id) ==
    IF f.attempt + 1 < info_max_retries
    THEN [f EXCEPT !.attempt = f.attempt + 1]
    ELSE IF f.days_back + 1 < info_days
         THEN [f EXCEPT !.attempt = 0, !.days_back = f.days_back + 1]
         ELSE [f EXCEPT !.attempt = info_max_retries, !.days_back = info_days,
                        !.ret = Fallback(stock_id)]

\* ------------------------------------------------------------ get_stock_price_change
price_max_retries == 5
days == 10

\* the days before today on which the exchange traded in the last 15 days,
\* for a run started on a Wednesday, oldest first
TradingOffsets == <<15, 14, 13, 12, 9, 8, 7, 6, 5, 2, 1>>

\* a month with more trading days in the date range than `days`
LongTable ==
    [i \in 1..Len(TradingOffsets) |-> <<now - TradingOffsets[i], IF i = 1 THEN 10 ELSE 20>>]

\* data['data'] of STOCK_DAY as rows <<date, close>>, oldest first
PriceTables ==
    { <<>>,
      LongTable,
      << <<now - 20, 10>> >>,
      << <<now - 20, 10>>, <<now - 1, 20>> >>,
      << <<now - 2, 10>>, <<now - 1, 20>> >>,
      << <<now - 20, 10>>, <<now - 2, 20>>, <<now - 1, 10>> >>,
      << <<now - 2, 10>>, <<now - 1, 10>> >> }

PriceResponses ==
    {[stat |-> "OK", data |-> t] : t \in PriceTables}
        \cup {[stat |-> "other", data |-> <<>>], [stat |-> "exception", data |-> <<>>]}

\* df[df['日期'] >= start_date.strftime('%Y/%m/%d')], start_date being
\* today - (days + 5); both sides are zero-padded year/month/day strings,
\* which compare as the dates do
RECURSIVE DateFilter(_, _)
DateFilter(rows, i) ==
    IF i > Len(rows) THEN <<>>
    ELSE IF rows[i][1] >= now - (days + 5)
         THEN <<rows[i]>> \o DateFilter(rows, i + 1)
         ELSE DateFilter(rows, i + 1)

EnoughRowsOne(df) == Len(df) >= 1

EnoughRows(df) == Len(df) >= 2

ChangeFromFirst(df) == ((df[Len(df)][2] - df[1][2]) * 100) \div df[1][2]

\* (end_price - start_price) / start_price * 100, the prices being such that
\* the quotient is whole
Change(df) ==
    LET start_price == df[Len(df) - Min(Len(df), days) + 1][2]
        end_price == df[Len(df)][2]
    IN ((end_price - start_price) * 100) \div start_price

Computed(r) == r.stat = "OK" /\ EnoughRows(DateFilter(r.data, 1))

\* ------------------------------------------------------------ __main__
\* The lists get_top_stocks hands to the driver.
DriverRankings ==
    { <<>>,
      << <<"A", 1, 0, <<>> >> >>,
      << <<"B", 2, 1, <<>> >>, <<"A", 1, 1, <<>> >> >> }

top_stocks == sorted_stocks(10)

Exit(code, why) ==
    /\ exit_code' = <<code>>
    /\ cause' = why
    /\ pc' = "exit"

\* top_stocks, start_date, end_date = get_top_stocks(...); if not top_stocks
Main ==
    /\ pc = "main"
    /\ \E r \in DriverRankings :
          /\ ranking' = r
          /\ IF Slice(r, 10) = <<>>
             THEN Exit(0, "empty")
             ELSE pc' = "info" /\ UNCHANGED <<exit_code, cause>>
    /\ UNCHANGED <<rank, results, problem_stocks, info, price>>
    /\ UNCHANGED aggregator
    /\ UNCHANGED apps

\* one pass of the attempt loop of get_stock_info(stock_id)
InfoAttempt ==
    /\ pc = "info"
    /\ \E r \in InfoResponses :
          LET f == [info EXCEPT !.requests = info.requests + 1, !.resp = r]
              stock_id == top_stocks[rank][1]
          IN info' = IF Usable(r) THEN [f EXCEPT !.ret = Parsed(stock_id)]
                     ELSE InfoAdvance(f, stock_id)
    /\ pc' = IF info'.ret # <<>> THEN "price" ELSE "info"
    /\ UNCHANGED <<ranking, rank, results, problem_stocks, exit_code, cause, price>>
    /\ UNCHANGED aggregator
    /\ UNCHANGED apps

\* one pass of the attempt loop of get_stock_price_change(stock_id)
PriceAttempt ==
    /\ pc = "price"
    /\ \E r \in PriceResponses :
          LET f == [price EXCEPT !.requests = price.requests + 1, !.resp = r,
                                 !.attempt = price.attempt + 1]
          IN price' = IF Computed(r)
                      THEN [f EXCEPT !.ret = <<Change(DateFilter(r.data, 1))>>]
                      ELSE IF f.attempt < price_max_retries THEN f
                      ELSE [f EXCEPT !.ret = <<0>>]
    /\ pc' = IF price'.ret # <<>> THEN "enrich" ELSE "price"
    /\ UNCHANGED <<ranking, rank, results, problem_stocks, exit_code, cause, info>>
    /\ UNCHANGED aggregator
    /\ UNCHANGED apps

RecordProblemDropped(problems, stock_id) == problems

\* except Exception as e: problem_stocks.append((stock_id, str(e)))
RecordProblem(problems, stock_id) == Append(problems, <<stock_id, "error">>)

\* The rest of the try block for the stock in work (statements, revenue,
\* analyses and news, any of which can raise), then results.append or the
\* except clause, then the next stock.
Enrich ==
    /\ pc = "enrich"
    /\ LET entry == top_stocks[rank]
           stock_id == entry[1]
           buy_amount == entry[2]
           sell_amount == entry[3]
       IN \E raised \in BOOLEAN :
             IF raised
             THEN /\ problem_stocks' = RecordProblem(problem_stocks, stock_id)
                  /\ UNCHANGED results
             ELSE /\ results' = Append(results,
                        <<rank, info.ret[1], info.ret[2], buy_amount, sell_amount,
                          buy_amount - sell_amount, price.ret[1], info.ret[3]>>)
                  /\ UNCHANGED problem_stocks
    /\ rank' = rank + 1
    /\ info' = InfoStart
    /\ price' = PriceStart
    /\ pc' = IF rank' > Len(top_stocks) THEN "report" ELSE "info"
    /\ UNCHANGED <<ranking, exit_code, cause>>
    /\ UNCHANGED aggregator
    /\ UNCHANGED apps

\* if not results: sys.exit(0); otherwise the tables are printed and the
\* program runs off its end
Report ==
    /\ pc = "report"
    /\ IF results = <<>> THEN Exit(0, "no results") ELSE Exit(0, "complete")
    /\ UNCHANGED <<ranking, rank, results, problem_stocks, info, price>>
    /\ UNCHANGED aggregator
    /\ UNCHANGED apps

\* except Exception of the outer try: an exception raised by get_top_stocks
\* or while the report is printed
OuterException ==
    /\ pc \in {"main", "report"}
    /\ Exit(1, "error")
    /\ UNCHANGED <<ranking, rank, results, problem_stocks, info, price>>
    /\ UNCHANGED aggregator
    /\ UNCHANGED apps

\* except KeyboardInterrupt of the outer try: no except Exception clause
\* catches it, wherever it is raised
KeyboardInterrupt ==
    /\ pc \in {"main", "info", "price", "enrich", "report"}
    /\ Exit(0, "interrupt")
    /\ UNCHANGED <<ranking, rank, results, problem_stocks, info, price>>
    /\ UNCHANGED aggregator
    /\ UNCHANGED apps

DriverInit ==
    /\ now \in {t \in Todays : Weekday(t) = 2}
    /\ num_days = 3
    /\ stock_buys = <<>>
    /\ stock_sells = <<>>
    /\ failed_dates = EmptyDict
    /\ end_date = now - 1
    /\ start_date = end_date
    /\ cache = EmptyDict
    /\ days_with_data = 0
    /\ current_date = end_date
    /\ date_str = <<>>
    /\ ranking = <<>>
    /\ pc = "main"
    /\ iterations = 0
    /\ hit_dates = {}
    /\ miss_dates = {}
    /\ call_log = <<>>
    /\ DriverIdle
    /\ AppsIdle

DriverNext ==
    \/ Main
    \/ InfoAttempt
    \/ PriceAttempt
    \/ Enrich
    \/ Report
    \/ OuterException
    \/ KeyboardInterrupt

DriverSpec == DriverInit /\ [][DriverNext]_vars

\* ------------------------------------------------------------ stock_gui.py
MaxThreads == 2

\* the batch program is not running
batch == <<aggregator, driver, ranking>>

BatchIdle ==
    /\ now \in {t \in Todays : Weekday(t) = 2}
    /\ num_days = 0
    /\ stock_buys = <<>>
    /\ stock_sells = <<>>
    /\ failed_dates = EmptyDict
    /\ end_date = now - 1
    /\ start_date = end_date
    /\ cache = EmptyDict
    /\ days_with_data = 0
    /\ current_date = end_date
    /\ date_str = <<>>
    /\ ranking = <<>>
    /\ iterations = 0
    /\ hit_dates = {}
    /\ miss_dates = {}
    /\ call_log = <<>>
    /\ DriverIdle

\* what the user can have typed into symbol_entry
EntryTexts == {"", " ", "2330", "2317"}

\* str.strip()
Strip(text) == IF text = " " THEN "" ELSE text

\* threading.Thread(target=perform_analysis, daemon=True).start()
StartThread(threads, symbol) == Append(threads, symbol)

\* analyze_stock(): the error box for an empty symbol, otherwise the button
\* disabled, the loading label shown and a new worker thread started
analyze_stock(g) ==
    LET symbol == Strip(g.entry)
    IN IF symbol = "" THEN g
       ELSE [g EXCEPT !.button = "disabled",
                      !.loading = TRUE,
                      !.status = "analyzing",
                      !.threads = StartThread(g.threads, symbol)]

\* clear_all()
clear_all(g) == [g EXCEPT !.entry = "", !.result = INSTRUCTIONS, !.status = "ready"]

\* the user edits symbol_entry
TypeSymbol ==
    /\ pc = "gui"
    /\ \E text \in EntryTexts : gui' = [gui EXCEPT !.entry = text]
    /\ UNCHANGED <<pc, chat, revenue>>
    /\ UNCHANGED batch

\* analyze_button pressed: a disabled button does not run its command
ClickAnalyze ==
    /\ pc = "gui"
    /\ gui.button = "normal"
    /\ Len(gui.threads) < MaxThreads
    /\ gui' = analyze_stock(gui)
    /\ UNCHANGED <<pc, chat, revenue>>
    /\ UNCHANGED batch

\* <Return> in symbol_entry: on_enter_key(event)
on_enter_key ==
    /\ pc = "gui"
    /\ Len(gui.threads) < MaxThreads
    /\ gui' = analyze_stock(gui)
    /\ UNCHANGED <<pc, chat, revenue>>
    /\ UNCHANGED batch

\* clear_button pressed
ClickClear ==
    /\ pc = "gui"
    /\ gui' = clear_all(gui)
    /\ UNCHANGED <<pc, chat, revenue>>
    /\ UNCHANGED batch

\* <FocusIn> of symbol_entry
on_symbol_entry_focus_in ==
    /\ pc = "gui"
    /\ gui' = IF Strip(gui.entry) # "" THEN clear_all([gui EXCEPT !.entry = ""]) ELSE gui
    /\ UNCHANGED <<pc, chat, revenue>>
    /\ UNCHANGED batch

\* save_results() with a file chosen in the dialog
save_results ==
    /\ pc = "gui"
    /\ gui' = IF gui.result = INSTRUCTIONS THEN gui ELSE [gui EXCEPT !.status = "saved"]
    /\ UNCHANGED <<pc, chat, revenue>>
    /\ UNCHANGED batch

\* one running perform_analysis thread comes to its end: the results shown
\* or the error box, then the finally block
perform_analysis ==
    /\ pc = "gui"
    /\ \E t \in 1..Len(gui.threads) : \E ok \in BOOLEAN :
          gui' = [gui EXCEPT
                    !.result = IF ok THEN gui.threads[t] ELSE @,
                    !.status = IF ok THEN "done" ELSE "failed",
                    !.button = "normal",
                    !.loading = FALSE,
                    !.threads = SubSeq(@, 1, t - 1) \o SubSeq(@, t + 1, Len(@))]
    /\ UNCHANGED <<pc, chat, revenue>>
    /\ UNCHANGED batch

GuiInit ==
    /\ BatchIdle
    /\ AppsIdle
    /\ pc = "gui"

GuiNext ==
    \/ TypeSymbol
    \/ ClickAnalyze
    \/ on_enter_key
    \/ ClickClear
    \/ on_symbol_entry_focus_in
    \/ save_results
    \/ perform_analysis

GuiSpec == GuiInit /\ [][GuiNext]_vars

\* ------------------------------------------------------------ chat_with_ai
MaxTurns == 5

\* One pass of the while loop for an input that is neither 'q' nor 'n': the
\* question is appended, the history is sent, and the answer is appended
\* unless the call raised.
Ask ==
    /\ pc = "chat"
    /\ chat.asked < MaxTurns
    /\ \E ok \in BOOLEAN :
          LET asked == Append(chat.conversation_history, Message("user", "question"))
          IN chat' = [chat EXCEPT
                        !.sent = asked,
                        !.asked = chat.asked + 1,
                        !.conversation_history =
                            IF ok THEN Append(asked, Message("assistant", "answer"))
                            ELSE asked]
    /\ UNCHANGED <<pc, gui, revenue>>
    /\ UNCHANGED batch

\* input 'q': break, return False; input 'n': return True
Leave ==
    /\ pc = "chat"
    /\ \E new_stock \in BOOLEAN : chat' = [chat EXCEPT !.ret = <<new_stock>>]
    /\ pc' = "chat_done"
    /\ UNCHANGED <<gui, revenue>>
    /\ UNCHANGED batch

ChatInit ==
    /\ BatchIdle
    /\ AppsIdle
    /\ pc = "chat"

ChatNext == Ask \/ Leave

ChatSpec == ChatInit /\ [][ChatNext]_vars

\* ------------------------------------------------------------ get_monthly_revenue
MONTHS == 12
STEP_DAYS == 30

\* datetime: the proleptic Gregorian calendar
IsLeap(y) == (y % 4 = 0 /\ y % 100 # 0) \/ y % 400 = 0

DaysInMonth(y, m) ==
    IF m = 2 THEN (IF IsLeap(y) THEN 29 ELSE 28)
    ELSE IF m \in {4, 6, 9, 11} THEN 30 ELSE 31

\* date - timedelta(days=n), a date being <<year, month, day>>
RECURSIVE MinusDays(_, _)
MinusDays(date, n) ==
    IF n < date[3] THEN <<date[1], date[2], date[3] - n>>
    ELSE LET y == IF date[2] = 1 THEN date[1] - 1 ELSE date[1]
             m == IF date[2] = 1 THEN 12 ELSE date[2] - 1
         IN MinusDays(<<y, m, DaysInMonth(y, m)>>, n - date[3])

\* the days a call can be made on
Dates ==
    {<<y, m, d>> \in {2024, 2025} \X (1..12) \X (1..31) : d <= DaysInMonth(y, m)}

\* what monthly_report gives for the months of a run: a row for the company
\* in every month, in none, or in the odd months only
Reports == {"all", "none", "odd"}

HasRevenue(reports, ym) ==
    \/ reports = "all"
    \/ reports = "odd" /\ ym[2] % 2 = 1

MonthOfDate(date) == <<date[1], date[2]>>

\* year, month = date.year, date.month - 1, month 0 being December of the
\* year before
QueriedMonth(today, i) ==
    LET date == MinusDays(today, STEP_DAYS * i)
    IN IF date[2] - 1 = 0 THEN <<date[1] - 1, 12>> ELSE <<date[1], date[2] - 1>>

\* dict(pairs[i], pairs[i + 1], ...): a key given again keeps its place and
\* takes the later value
RECURSIVE DictOf(_, _, _)
DictOf(pairs, i, acc) ==
    IF i > Len(pairs) THEN acc
    ELSE DictOf(pairs, i + 1, ItemSet(acc, pairs[i][1], pairs[i][2]))

\* list[::-1]
Reversed(list) == [i \in 1..Len(list) |-> list[Len(list) + 1 - i]]

\* one pass of the for loop
QueryMonth ==
    /\ pc = "months"
    /\ revenue.i < MONTHS
    /\ LET ym == QueriedMonth(revenue.now, revenue.i)
       IN revenue' = [revenue EXCEPT
                        !.i = revenue.i + 1,
                        !.queried = Append(@, ym),
                        !.revenues = IF HasRevenue(revenue.reports, ym)
                                     THEN Append(@, <<ym, "revenue">>)
                                     ELSE @]
    /\ UNCHANGED <<pc, gui, chat>>
    /\ UNCHANGED batch

\* return pd.Series(dict(revenues[::-1]))
ReturnRevenue ==
    /\ pc = "months"
    /\ revenue.i >= MONTHS
    /\ revenue' = [revenue EXCEPT !.ret = DictOf(Reversed(revenue.revenues), 1, <<>>)]
    /\ pc' = "months_done"
    /\ UNCHANGED <<gui, chat>>
    /\ UNCHANGED batch

RevenueInit ==
    /\ BatchIdle
    /\ gui = GuiStart
    /\ chat = ChatStart
    /\ \E today \in Dates : \E reports \in Reports :
          revenue = RevenueStart(today, reports)
    /\ pc = "months"

RevenueNext == QueryMonth \/ ReturnRevenue

RevenueSpec == RevenueInit /\ [][RevenueNext]_vars

\* ------------------------------------------------------------ properties
Seen == Keys(stock_buys) \cup Keys(stock_sells)
Failed(s) == IF s \in DOMAIN failed_dates THEN failed_dates[s] ELSE <<>>
Position(list, x) == CHOOSE i \in 1..Len(list) : list[i] = x

\* C1: days_with_data never exceeds the number of distinct date strings for
\* which fetch_stock_data returned data in this run.
C1_DaysWithinDistinctDates == days_with_data <= Cardinality(hit_dates)

\* C2 (as claimed): of two fetch_stock_data calls for the same date on one run
\* cache, whatever the first returned, only the first issues HTTP requests and
\* both return the same value.
C2_SecondCallIdempotent ==
    \A i, j \in 1..Len(call_log) :
        (i < j /\ call_log[i].date = call_log[j].date)
            => (call_log[j].calls = 0 /\ call_log[j].ret = call_log[i].ret)

\* C2 (amended): when a fetch_stock_data call returned data, every later call
\* for the same date on the same run cache issues no HTTP request and returns
\* that same data.
C2_CachedSecondCall ==
    \A i, j \in 1..Len(call_log) :
        (i < j /\ call_log[i].date = call_log[j].date /\ ~call_log[i].ret.isNone)
            => (call_log[j].calls = 0 /\ call_log[j].ret = call_log[i].ret)

C2_Witness ==
    \E i, j \in 1..Len(call_log) :
        /\ i < j
        /\ call_log[i].date = call_log[j].date
        /\ ~call_log[i].ret.isNone
        /\ call_log[i].calls > 1
        /\ call_log[j].calls = 0

\* C3: the while loop of get_top_stocks never runs its body more than 30
\* times: the number of bodies run is the span from end_date to current_date,
\* which every pass raises by one, which never exceeds 30, and at 30 of which
\* the run has ended or is about to return.
C3_LoopTerminatesWithin30 ==
    /\ iterations <= 30
    /\ iterations = end_date - current_date
    /\ iterations = 30 => (pc = "done" \/ ~LoopCond)

C3_Witness == pc = "done" /\ iterations = 30

\* C4: a step runs the loop body only when days_with_data < num_days and the
\* span from end_date to current_date is below 30 days, and leaves the loop
\* only when that fails; on leaving, days_with_data <= num_days, and
\* days_with_data < num_days only with the span at the 30-day ceiling.
C4_LoopCondition ==
    [][/\ (pc = "while" /\ pc' = "while")
            => (days_with_data < num_days /\ end_date - current_date < 30)
       /\ (pc = "while" /\ pc' = "done")
            => /\ ~(days_with_data < num_days /\ end_date - current_date < 30)
               /\ days_with_data' <= num_days
               /\ days_with_data' < num_days => end_date' - current_date' >= 30]_vars

C4_Witness ==
    pc = "done" /\ 0 < days_with_data /\ days_with_data < num_days

\* C5: a failed date is appended only to the lists of stocks that already
\* appeared in a successful day when the lookup was made.
C5_FailureOnlyAfterFirstAppearance ==
    [][\A s \in Stocks :
          (IF s \in DOMAIN failed_dates' THEN failed_dates'[s] ELSE <<>>) # Failed(s)
              => s \in Keys(stock_buys)]_vars

C5_Witness ==
    /\ "A" \in Keys(stock_buys)
    /\ "B" \in Keys(stock_buys)
    /\ miss_dates # {}
    /\ Len(Failed("A")) > Len(Failed("B"))

\* C6: every date in a stock's failed_dates list is a date that was passed to
\* fetch_stock_data in this run and for which that call returned no data.
C6_FailedDatesWereLookedUp ==
    \A s \in DOMAIN failed_dates :
        \A i \in 1..Len(failed_dates[s]) :
            \E m \in miss_dates : Ordinal(m) = Ordinal(failed_dates[s][i])

\* C7: no stock's cumulative buy or sell total decreases in any step.
C7_TotalsNeverDecrease ==
    [][\A s \in Stocks :
          /\ ItemGet(stock_buys', s, 0) >= ItemGet(stock_buys, s, 0)
          /\ ItemGet(stock_sells', s, 0) >= ItemGet(stock_sells, s, 0)]_vars

C7_Witness ==
    ItemGet(stock_buys, "B", 0) = 2 /\ ItemGet(stock_sells, "A", 0) = 2

\* C8: for every requested count, the returned list holds
\* min(num_stocks, stocks seen) distinct stocks with their cumulative buy
\* totals, in non-increasing order of total buy, and no stock left out has a
\* larger total buy than one that is in it.
C8_Ranking ==
    pc = "done" =>
        \A n \in 0..MaxStocks :
            LET top == sorted_stocks(n) IN
            /\ Len(top) = Min(n, Cardinality(Seen))
            /\ \A i \in 1..Len(top) :
                  /\ top[i][1] \in Seen
                  /\ top[i][2] = ItemGet(stock_buys, top[i][1], 0)
            /\ \A i, j \in 1..Len(top) :
                  i < j => /\ top[i][2] >= top[j][2]
                           /\ top[i][1] # top[j][1]
            /\ \A s \in Seen :
                  (\A i \in 1..Len(top) : top[i][1] # s)
                      => \A i \in 1..Len(top) : ItemGet(stock_buys, s, 0) <= top[i][2]

C8_Witness ==
    /\ pc = "done"
    /\ Cardinality(Seen) = 2
    /\ ItemGet(stock_buys, "A", 0) < ItemGet(stock_buys, "B", 0)
    /\ Len(sorted_stocks(1)) = 1
    /\ sorted_stocks(1)[1][1] = "B"
    /\ sorted_stocks(MaxStocks)[2][1] = "A"

\* C9: stocks with equal total buy appear in the returned list in the
\* insertion order of stock_buys.
C9_TiesInInsertionOrder ==
    pc = "done" =>
        \A n \in 0..MaxStocks :
            LET top == sorted_stocks(n) IN
            \A i, j \in 1..Len(top) :
                (i < j /\ top[i][2] = top[j][2])
                    => Position(KeyList(stock_buys), top[i][1])
                           < Position(KeyList(stock_buys), top[j][1])

\* C10: when no lookup of the run returned data, get_top_stocks returns the
\* empty list with days_with_data = 0.
C10_EmptyResult ==
    (pc = "done" /\ hit_dates = {})
        => ((\A n \in 0..MaxStocks : sorted_stocks(n) = <<>>) /\ days_with_data = 0)

C10_Witness ==
    pc = "done" /\ hit_dates = {} /\ iterations = 30 /\ miss_dates # {}

\* C11: get_valid_date returns a weekday for every offset: the date today minus
\* days_back itself when that is a weekday, the Friday before it when it is a
\* Saturday or a Sunday; the date the loop last looked up is such a weekday.
C11_ValidDateIsWeekday ==
    /\ \A k \in 0..LookbackDays :
          LET d == now - k
              r == get_valid_date(k)
          IN /\ r[1] = FMT_COMPACT
             /\ Weekday(Ordinal(r)) < 5
             /\ Weekday(d) < 5 => Ordinal(r) = d
             /\ Weekday(d) = 5 => Ordinal(r) = d - 1
             /\ Weekday(d) = 6 => Ordinal(r) = d - 2
    /\ date_str # <<>> => Weekday(Ordinal(date_str)) < 5

C11_Witness ==
    /\ date_str # <<>>
    /\ Weekday(now - (iterations - 1)) = 6
    /\ Ordinal(date_str) = now - (iterations - 1) - 2
    /\ Weekday(Ordinal(date_str)) = 4

\* C12: the first date get_top_stocks passes to fetch_stock_data is end_date
\* (yesterday) moved back to a weekday, and no date it passes is later than
\* end_date.
C12_WalksBackFromYesterday ==
    date_str # <<>> =>
        /\ Ordinal(date_str) <= end_date
        /\ iterations = 1 => Ordinal(date_str) = SkipWeekend(end_date)

\* C13: end_date stays at yesterday, and when get_top_stocks returns with
\* days_with_data > 0 its start_date is the oldest date for which
\* fetch_stock_data returned data.
C13_WindowBounds ==
    /\ end_date = now - 1
    /\ (pc = "done" /\ days_with_data > 0) =>
            /\ \E h \in hit_dates : Ordinal(h) = start_date
            /\ \A h \in hit_dates : start_date <= Ordinal(h)

Last(seq) == seq[Len(seq)]
Gets(events) == Cardinality({i \in 1..Len(events) : events[i] # "sleep"})

\* C14: in every fetch_stock_data call, a response with the apology status is
\* the last thing that happens: no request and no sleep follows it, and the
\* call returns None.
C14_ApologyEndsTheCall ==
    \A n \in 1..Len(call_log) :
        LET e == call_log[n] IN
        \A i \in 1..Len(e.events) :
            e.events[i] = "sorry" => (i = Len(e.events) /\ e.ret = None)

C14_Witness ==
    \E n \in 1..Len(call_log) :
        /\ call_log[n].events = <<"error", "sleep", "sorry">>
        /\ call_log[n].ret = None
        /\ call_log[n].calls = 2
        /\ call_log[n].sleeps = 1

\* C15: a fetch_stock_data call never removes or replaces a cache entry; a
\* call that returns None leaves the cache as it was; the only entry a call
\* can add is the one for its own date, holding the data it returns, after a
\* response with status OK.
C15_CacheOnlyGrowsOnSuccess ==
    [][call_log' # call_log =>
          LET e == Last(call_log') IN
          /\ \A d \in DOMAIN cache : d \in DOMAIN cache' /\ cache'[d] = cache[d]
          /\ (e.ret.isNone => cache' = cache)
          /\ \A d \in (DOMAIN cache') \ (DOMAIN cache) :
                /\ d = e.date
                /\ e.ret = Some(cache'[d])
                /\ Last(e.events) = "OK"]_vars

C15_Witness ==
    /\ Len(call_log) = 2
    /\ ~call_log[1].ret.isNone
    /\ call_log[2].ret = None
    /\ call_log[2].calls = max_retries
    /\ call_log[2].date # call_log[1].date
    /\ DOMAIN cache = {call_log[1].date}
    /\ cache[call_log[1].date] = call_log[1].ret.val

\* C16: a fetch_stock_data call for an uncached date issues between 1 and 10
\* requests; a transient response is followed by a sleep and another request
\* unless it is the 10th, after which the call returns None; every sleep
\* stands between a transient response and the next request, none is last.
C16_RetryPolicy ==
    \A n \in 1..Len(call_log) :
        LET e == call_log[n]
            ev == e.events
        IN e.calls > 0 =>
            /\ e.calls <= 10
            /\ e.calls = Gets(ev)
            /\ e.sleeps = Len(ev) - Gets(ev)
            /\ ev # <<>>
            /\ Last(ev) # "sleep"
            /\ Last(ev) = "error" => (e.calls = 10 /\ e.ret = None)
            /\ \A i \in 1..Len(ev) :
                  /\ (ev[i] = "error" /\ i < Len(ev)) => ev[i + 1] = "sleep"
                  /\ ev[i] = "sleep" =>
                        (i > 1 /\ ev[i - 1] = "error" /\ i < Len(ev) /\ ev[i + 1] # "sleep")

C16_Witness ==
    \E n \in 1..Len(call_log) :
        /\ call_log[n].calls = 10
        /\ call_log[n].sleeps = 9
        /\ call_log[n].ret = None
        /\ Last(call_log[n].events) = "error"

\* C17: get_stock_info issues at most 5 requests for each of at most 30 day
\* offsets (150 in all); it goes on only after a response that is not usable
\* and returns the parsed triple at the first usable one; after 150 unusable
\* responses it returns (stock_id, "未知", 0.0), and the driver goes on to
\* the price lookup.
C17_InfoSoftFailure ==
    LET usable == info.resp.stat = "OK" /\ info.resp.parts >= 2 /\ info.resp.rows >= 1
    IN /\ info.requests <= 150
       /\ info.ret = <<>> =>
             /\ info.days_back < 30
             /\ info.attempt < 5
             /\ info.requests = info.days_back * 5 + info.attempt
             /\ info.requests > 0 => ~usable
       /\ info.ret # <<>> =>
             /\ pc \in {"price", "enrich", "exit"}
             /\ cause # "error"
             /\ info.ret[1] = top_stocks[rank][1]
             /\ \/ usable /\ info.ret[2] # "unknown"
                          /\ info.requests = info.days_back * 5 + info.attempt + 1
                \/ ~usable /\ info.requests = 150
                           /\ info.ret = <<top_stocks[rank][1], "unknown", 0>>

C17_Witness ==
    /\ pc = "price"
    /\ info.requests = 150
    /\ info.ret = <<"B", "unknown", 0>>

\* C18: no stock for which get_stock_info returned the fallback triple is in
\* the results list of the driver.
C18_SentinelNotInResults ==
    \A i \in 1..Len(results) : results[i][3] # SENTINEL_NAME

InResults(k) == \E i \in 1..Len(results) :
                    results[i][1] = k /\ results[i][2] = top_stocks[k][1]
InProblems(k) == \E j \in 1..Len(problem_stocks) :
                    problem_stocks[j][1] = top_stocks[k][1]

\* C19: the stocks before the one in work are each in exactly one of results
\* and problem_stocks, both in rank order, whether or not their enrichment
\* raised; a process that ended with ranked stocks left over was interrupted
\* from the keyboard and exits with 0; an exit with 1 follows an exception
\* outside the per-stock loop; every other end exits with 0 after the loop.
C19_PerItemIsolation ==
    /\ Len(results) + Len(problem_stocks) = rank - 1
    /\ rank <= Len(top_stocks) + 1
    /\ \A k \in 1..(rank - 1) : InResults(k) # InProblems(k)
    /\ \A i, j \in 1..Len(results) : i < j => results[i][1] < results[j][1]
    /\ \A i, j \in 1..Len(problem_stocks) :
          i < j => \E k, l \in 1..(rank - 1) :
                      /\ k < l
                      /\ top_stocks[k][1] = problem_stocks[i][1]
                      /\ top_stocks[l][1] = problem_stocks[j][1]
    /\ (pc = "exit" /\ rank <= Len(top_stocks)) =>
          (cause = "interrupt" /\ exit_code = <<0>>)
    /\ pc = "exit" =>
          \/ cause = "interrupt" /\ exit_code = <<0>>
          \/ cause = "error" /\ exit_code = <<1>> /\ rank > Len(top_stocks)
          \/ cause \in {"empty", "no results", "complete"}
                /\ exit_code = <<0>> /\ rank > Len(top_stocks)

C19_Witness ==
    /\ pc = "exit"
    /\ cause = "complete"
    /\ Len(top_stocks) = 2
    /\ Len(problem_stocks) = 1
    /\ problem_stocks[1][1] = "B"
    /\ Len(results) = 1
    /\ results[1][1] = 2
    /\ results[1][2] = "A"

\* C20: get_stock_price_change issues at most 5 requests; it goes on only
\* after a response that is an error, has a status other than OK or leaves
\* fewer than two rows after the date filter, and when the 5th is such a
\* response it returns 0.0 and the driver goes on.
C20_PriceChangeFallback ==
    LET computable == price.resp.stat = "OK" /\ Len(DateFilter(price.resp.data, 1)) >= 2
    IN /\ price.requests <= 5
       /\ price.requests = price.attempt
       /\ (price.ret = <<>> /\ price.requests > 0) => (~computable /\ price.requests < 5)
       /\ price.ret # <<>> =>
             /\ pc \in {"enrich", "exit"}
             /\ cause # "error"
             /\ computable \/ (price.requests = 5 /\ price.ret = <<0>>)

C20_Witness ==
    /\ pc = "enrich"
    /\ price.requests = 5
    /\ price.ret = <<0>>
    /\ price.resp.stat = "OK"
    /\ Len(price.resp.data) = 2
    /\ Len(DateFilter(price.resp.data, 1)) = 1

\* C21 (as claimed): when the response that made get_stock_price_change
\* return left at least two rows after the date filter, the value returned is
\* (lastClose - firstClose) / firstClose * 100 with firstClose the close of
\* the first row of the filtered range and lastClose that of its last row.
C21_ChangeFirstToLast ==
    LET df == DateFilter(price.resp.data, 1) IN
    (price.ret # <<>> /\ price.resp.stat = "OK" /\ Len(df) >= 2)
        => price.ret = <<((df[Len(df)][2] - df[1][2]) * 100) \div df[1][2]>>

\* C21 (amended): the value returned is (lastClose - startClose) / startClose
\* * 100 with startClose the close of the row min(row count, days) places
\* from the end of the filtered range (days = 10): the first row when there
\* are at most 10 rows, the 10th row from the end when there are more.
C21_ChangeOverLastDays ==
    LET df == DateFilter(price.resp.data, 1)
        n == Len(df)
        startClose == df[n - Min(n, 10) + 1][2]
        lastClose == df[n][2]
    IN (price.ret # <<>> /\ price.resp.stat = "OK" /\ n >= 2)
          => price.ret = <<((lastClose - startClose) * 100) \div startClose>>

C21_Witness ==
    /\ pc = "enrich"
    /\ price.resp.stat = "OK"
    /\ Len(DateFilter(price.resp.data, 1)) = 11
    /\ price.resp.data[1][2] = 10
    /\ price.ret = <<0>>

\* the volume (idx 1: buy, idx 2: sell) of stock s summed over the cached
\* tables of a set of dates
RECURSIVE SumVolumes(_, _, _)
SumVolumes(dates, s, idx) ==
    IF dates = {} THEN 0
    ELSE LET d == CHOOSE x \in dates : TRUE
         IN ItemGet(cache[d], s, <<0, 0>>)[idx] + SumVolumes(dates \ {d}, s, idx)

\* C22: when get_top_stocks returns, every stock's cumulative buy and sell
\* totals are the sums of its volumes over the distinct dates for which
\* fetch_stock_data returned data, each date counted once.
C22_TotalsOverDistinctDates ==
    pc = "done" =>
        \A s \in Stocks :
            /\ ItemGet(stock_buys, s, 0) = SumVolumes(hit_dates, s, 1)
            /\ ItemGet(stock_sells, s, 0) = SumVolumes(hit_dates, s, 2)

\* C23: a loop pass whose lookup returned None leaves stock_buys,
\* stock_sells, days_with_data and start_date as they were and appends one
\* date, the same for all, to the failed_dates list of every stock seen so
\* far and to no other; a pass whose lookup returned data changes no
\* failed_dates list.
C23_MissIterationEffect ==
    [][iterations' = iterations + 1 =>
          IF date_str' \notin DOMAIN cache'
          THEN /\ stock_buys' = stock_buys
               /\ stock_sells' = stock_sells
               /\ days_with_data' = days_with_data
               /\ start_date' = start_date
               /\ \A s \in Seen :
                     /\ Len(Failed(s)') = Len(Failed(s)) + 1
                     /\ SubSeq(Failed(s)', 1, Len(Failed(s))) = Failed(s)
               /\ \A s, t \in Seen : Last(Failed(s)') = Last(Failed(t)')
               /\ \A s \in Stocks \ Seen : Failed(s)' = Failed(s)
          ELSE \A s \in Stocks : Failed(s)' = Failed(s)]_vars

C23_Witness ==
    /\ pc = "while"
    /\ iterations = 2
    /\ Seen = {"A", "B"}
    /\ date_str \notin DOMAIN cache
    /\ Len(Failed("A")) = 1
    /\ Len(Failed("B")) = 1

\* C24: every date passed to fetch_stock_data is a weekday, and no date
\* passed is later than the one passed in the pass before.
C24_RequestedDatesGoBack ==
    [][/\ date_str' # <<>> => Weekday(Ordinal(date_str')) < 5
       /\ (date_str # <<>> /\ date_str' # <<>>) => Ordinal(date_str') <= Ordinal(date_str)]_vars

C24_Witness ==
    /\ iterations = 3
    /\ Weekday(now) = 5
    /\ Ordinal(date_str) = now - 2
    /\ Cardinality(hit_dates \cup miss_dates) = 2

\* C25: at most one perform_analysis thread runs at any time.
C25_AtMostOneWorker == Len(gui.threads) <= 1

\* C26: after the three seed messages the roles of conversation_history, as
\* kept and as sent to the service, alternate: no two messages in a row have
\* the same role.
C26_RolesAlternate ==
    /\ \A i \in 3..(Len(chat.conversation_history) - 1) :
          chat.conversation_history[i].role # chat.conversation_history[i + 1].role
    /\ \A i \in 3..(Len(chat.sent) - 1) : chat.sent[i].role # chat.sent[i + 1].role

MonthIndex(ym) == ym[1] * 12 + ym[2]

\* C27: when get_monthly_revenue returns it has queried 12 months, no two
\* the same, which are the 12 calendar months before the month of the call,
\* and it returns at most 12 entries, oldest month first.
C27_TwelvePrecedingMonths ==
    pc = "months_done" =>
        LET q == revenue.queried
            current == MonthIndex(MonthOfDate(revenue.now))
        IN /\ Len(q) = 12
           /\ \A i, j \in 1..Len(q) : i # j => q[i] # q[j]
           /\ {MonthIndex(q[i]) - 1 : i \in 1..Len(q)} = {current - 1 - k : k \in 1..12}
           /\ Len(revenue.ret) <= 12
           /\ \A i, j \in 1..Len(revenue.ret) :
                 i < j => MonthIndex(revenue.ret[i][1]) < MonthIndex(revenue.ret[j][1])

====
